---- MODULE Spec2Model ----
(***************************************************************************)
(* Model of eth_hist_plot (src/src/main.rs): the payload is acquired,      *)
(* deserialized into Data, and two chart panels (prices, market caps) are  *)
(* drawn one after the other on one SVG canvas, which is then presented.   *)
(*                                                                         *)
(* Units and encodings.                                                    *)
(*  - TLC integers are 32 bits wide, so a timestamp is held in whole       *)
(*    seconds: the JSON integer 1000 (milliseconds) is the model's 1 and   *)
(*    1663224180000 is the model's 1663224180.                             *)
(*  - An f64 is held as an integer; the order on integers stands for       *)
(*    f64::total_cmp.  NaN cannot be written in JSON and is not modelled.  *)
(*  - Option<T>: None is <<>> and Some(x) is <<x>>.                        *)
(*  - A raw JSON element is a record [k, v]; k is the JSON kind.           *)
(***************************************************************************)
EXTENDS Integers, Sequences, FiniteSets, TLC

VARIABLES
    payload,    \* the JSON document behind the API response or the file
    data,       \* Option<Data>: the deserialized dataset
    loc,        \* Option of the bound locals x_min, x_max, y_min, y_max
    chart,      \* what has been drawn in each of the two sub-areas
    pc,         \* the statement main executes next, or "done" / "failed"
    err,        \* the failure that ended main, "none" while there is none
    log         \* the statements started so far, in order

vars == <<payload, data, loc, chart, pc, err, log>>

----------------------------------------------------------------------------
(* Bounds of the model *)

MaxSamples == 3

MaxArity == 3

----------------------------------------------------------------------------
(* Option and iterator helpers *)

None == <<>>

Some(x) == <<x>>

IsSome(o) == o # <<>>

unwrap(o) == o[1]

\* concatenation of a sequence of options: the Some elements, in order
RECURSIVE flatten(_)
flatten(os) ==
    IF os = <<>> THEN <<>> ELSE Head(os) \o flatten(Tail(os))

\* Iterator::min_by folds with: keep x unless x > y
RECURSIVE min_fold(_, _)
min_fold(x, s) ==
    IF s = <<>> THEN x
    ELSE min_fold(IF x > Head(s) THEN Head(s) ELSE x, Tail(s))

\* Iterator::max_by folds with: keep y unless x > y
RECURSIVE max_fold(_, _)
max_fold(x, s) ==
    IF s = <<>> THEN x
    ELSE max_fold(IF x > Head(s) THEN x ELSE Head(s), Tail(s))

\* Iterator::min / min_by: None on an empty iterator
min(s) == IF s = <<>> THEN None ELSE Some(min_fold(Head(s), Tail(s)))

\* Iterator::max / max_by: None on an empty iterator
max(s) == IF s = <<>> THEN None ELSE Some(max_fold(Head(s), Tail(s)))

----------------------------------------------------------------------------
(* Datum and Data *)

timestamp(x) == x.ts

price(x) == x.price

\* mutant: the price iterator runs on into the volumes
iter_prices_chained(d) == d.prices \o d.total_volumes

iter_prices(d) == d.prices

\* mutant: the market-cap iterator hands out the prices
iter_market_caps_prices(d) == d.prices

iter_market_caps(d) == d.market_caps

iter_total_volumes(d) == d.total_volumes

----------------------------------------------------------------------------
(* Deserialization *)

IntEl(n) == [k |-> "int", v |-> n]

FloatEl(n) == [k |-> "float", v |-> n]

NullEl == [k |-> "null", v |-> 0]

StrEl == [k |-> "str", v |-> 0]

\* ts_milliseconds: only a JSON integer is accepted
DecodeTs(e) == IF e.k = "int" THEN Some(e.v) ELSE None

\* Option<f64>: null is None, any JSON number is Some; the result is
\* Some(the option) on success and None on a type error
DecodeValue(e) ==
    CASE e.k = "null" -> Some(None)
      [] e.k \in {"int", "float"} -> Some(Some(e.v))
      [] OTHER -> None

\* mutant: a missing second element is taken for an absent value
DecodeDatum_lenient(a) ==
    IF Len(a) = 0 THEN None
    ELSE IF ~IsSome(DecodeTs(a[1])) THEN None
    ELSE IF Len(a) = 1 THEN Some([ts |-> unwrap(DecodeTs(a[1])), price |-> None])
    ELSE IF ~IsSome(DecodeValue(a[2])) THEN None
    ELSE IF Len(a) > 2 THEN None
    ELSE Some([ts |-> unwrap(DecodeTs(a[1])),
               price |-> unwrap(DecodeValue(a[2]))])

\* Deserialize for the tuple struct Datum from a JSON array: element 0,
\* element 1, then the end of the array
DecodeDatum(a) ==
    IF Len(a) = 0 THEN None
    ELSE IF ~IsSome(DecodeTs(a[1])) THEN None
    ELSE IF Len(a) = 1 THEN None
    ELSE IF ~IsSome(DecodeValue(a[2])) THEN None
    ELSE IF Len(a) > 2 THEN None
    ELSE Some([ts |-> unwrap(DecodeTs(a[1])),
               price |-> unwrap(DecodeValue(a[2]))])

\* Vec<Datum>: fails as soon as one element fails
DecodeSeries(s) ==
    IF \E i \in 1..Len(s) : ~IsSome(DecodeDatum(s[i])) THEN None
    ELSE Some([i \in 1..Len(s) |-> unwrap(DecodeDatum(s[i]))])

\* serde_json::from_reader into Data
DecodeData(p) ==
    IF /\ IsSome(DecodeSeries(p.prices))
       /\ IsSome(DecodeSeries(p.market_caps))
       /\ IsSome(DecodeSeries(p.total_volumes))
    THEN Some([prices |-> unwrap(DecodeSeries(p.prices)),
               market_caps |-> unwrap(DecodeSeries(p.market_caps)),
               total_volumes |-> unwrap(DecodeSeries(p.total_volumes))])
    ELSE None

----------------------------------------------------------------------------
(* The per-panel computations of main *)

\* .map(Datum::timestamp)
map_timestamp(s) == [i \in 1..Len(s) |-> timestamp(s[i])]

\* .filter_map(Datum::price)
filter_map_price(s) == flatten([i \in 1..Len(s) |-> price(s[i])])

\* .map(Datum::timestamp).min()
x_min_of(s) == min(map_timestamp(s))

\* .map(Datum::timestamp).max()
x_max_of(s) == max(map_timestamp(s))

\* mutant: an absent value counts as 0.0 (map with unwrap_or)
y_min_of_zero(s) ==
    min([i \in 1..Len(s) |-> IF IsSome(price(s[i])) THEN unwrap(price(s[i])) ELSE 0])

\* .filter_map(Datum::price).min_by(f64::total_cmp)
y_min_of(s) == min(filter_map_price(s))

\* .filter_map(Datum::price).max_by(f64::total_cmp)
y_max_of(s) == max(filter_map_price(s))

\* mutant: unwrap_or_default in place of unwrap
BoundsOf_default(s) ==
    Some([x_min |-> IF IsSome(x_min_of(s)) THEN unwrap(x_min_of(s)) ELSE 0,
          x_max |-> IF IsSome(x_max_of(s)) THEN unwrap(x_max_of(s)) ELSE 0,
          y_min |-> IF IsSome(y_min_of(s)) THEN unwrap(y_min_of(s)) ELSE 0,
          y_max |-> IF IsSome(y_max_of(s)) THEN unwrap(y_max_of(s)) ELSE 0])

\* the four unwraps in source order: None when one of them panics
BoundsOf(s) ==
    IF ~IsSome(x_min_of(s)) THEN None
    ELSE IF ~IsSome(x_max_of(s)) THEN None
    ELSE IF ~IsSome(y_min_of(s)) THEN None
    ELSE IF ~IsSome(y_max_of(s)) THEN None
    ELSE Some([x_min |-> unwrap(x_min_of(s)), x_max |-> unwrap(x_max_of(s)),
               y_min |-> unwrap(y_min_of(s)), y_max |-> unwrap(y_max_of(s))])

\* mutant: map with unwrap_or(0.0), an absent value is drawn as zero
LinePoints_zero(s) ==
    [i \in 1..Len(s) |->
        <<timestamp(s[i]), IF IsSome(price(s[i])) THEN unwrap(price(s[i])) ELSE 0>>]

\* mutant: the valued samples are taken from the back (.rev())
LinePoints_rev(s) ==
    LET r == [i \in 1..Len(s) |-> s[Len(s) + 1 - i]]
    IN  flatten([i \in 1..Len(r) |->
                    IF IsSome(price(r[i]))
                    THEN Some(<<timestamp(r[i]), unwrap(price(r[i]))>>)
                    ELSE None])

\* .filter_map(|x| x.price().map(|price| (*x.timestamp(), price)))
LinePoints(s) ==
    flatten([i \in 1..Len(s) |->
                IF IsSome(price(s[i]))
                THEN Some(<<timestamp(s[i]), unwrap(price(s[i]))>>)
                ELSE None])

\* lines 96-107: the bounds of the price panel
PriceBounds(d) == BoundsOf(iter_prices(d))

\* lines 125-126: the points of the price line
PriceLine(d) == LinePoints(iter_prices(d))

\* lines 154-165: the bounds of the market-cap panel
CapBounds(d) == BoundsOf(iter_market_caps(d))

\* lines 184-185: the points of the market-cap line
CapLine(d) == LinePoints(iter_market_caps(d))

\* days since 1970-01-01 of a civil date (proleptic Gregorian)
DaysFromCivil(y, m, d) ==
    LET yy  == IF m <= 2 THEN y - 1 ELSE y
        era == yy \div 400
        yoe == yy - era * 400
        mp  == (m + 9) % 12
        doy == (153 * mp + 2) \div 5 + d - 1
        doe == yoe * 365 + yoe \div 4 - yoe \div 100 + doy
    IN  era * 146097 + doe - 719468

\* NaiveDate::from_ymd_opt(2022, 9, 15).and_hms_opt(6, 43, 0) as UTC
exact_merge_date == DaysFromCivil(2022, 9, 15) * 86400 + 6 * 3600 + 43 * 60 + 0

\* vec![(exact_merge_date, 1450f64)]
point_data == << <<exact_merge_date, 1450>> >>

PriceLabel == "ETH price in USD"

MarketCapLabel == "ETH market cap in USD"

MergeLabel == "merge date"

----------------------------------------------------------------------------
(* Control flow of main *)

Order ==
    << "acquire", "parse", "canvas",
       "bounds1", "build1", "mesh1", "line1", "point1", "legend1",
       "bounds2", "build2", "mesh2", "line2", "point2", "legend2",
       "present" >>

IndexOf(step) == CHOOSE i \in 1..Len(Order) : Order[i] = step

\* the statement that follows a statement that succeeded
After(step) ==
    IF IndexOf(step) = Len(Order) THEN "done" ELSE Order[IndexOf(step) + 1]

\* a statement succeeded
Advance(step) ==
    /\ pc' = After(step)
    /\ log' = Append(log, step)
    /\ err' = err

\* mutant: the error is recorded and main goes on
Abort_continue(step, kind) ==
    /\ pc' = After(step)
    /\ log' = Append(log, step)
    /\ err' = kind

\* the ? operator on an Err, or a panic: main ends here
Abort(step, kind) ==
    /\ pc' = "failed"
    /\ log' = Append(log, step)
    /\ err' = kind

\* the process exit status: 0 for Ok(()), 1 for Err, 101 for a panic
ExitStatus ==
    IF err = "none" THEN 0 ELSE IF err = "EmptySeriesError" THEN 101 ELSE 1

EmptyChart ==
    [dom |-> None, mesh |-> FALSE, line |-> None, marker |-> None,
     labels |-> <<>>, legend |-> None]

----------------------------------------------------------------------------
(* Inputs *)

ValuedStamps == {1, 3}

AbsentStamps == {2}

Values == {10, 30}

\* the well-formed raw samples of the checked payloads: a present value at
\* the outer timestamps, an absent one in between, and the merge event
GoodSamples ==
    {<<IntEl(t), FloatEl(v)>> : t \in ValuedStamps, v \in Values}
    \cup {<<IntEl(t), NullEl>> : t \in AbsentStamps}
    \cup {<<IntEl(exact_merge_date), IntEl(1450)>>}

SeqsUpTo(S, n) == UNION {[1..k -> S] : k \in 0..n}

\* every split of up to MaxSamples well-formed samples over the three series
GoodPayloads ==
    {[prices |-> SubSeq(t, 1, i), market_caps |-> SubSeq(t, i + 1, j),
      total_volumes |-> SubSeq(t, j + 1, Len(t))] :
        <<t, i, j>> \in {<<t, i, j>> \in SeqsUpTo(GoodSamples, MaxSamples)
                                        \X (0..MaxSamples) \X (0..MaxSamples) :
                            i <= j /\ j <= Len(t)}}

RawElems == {IntEl(1), IntEl(-1), FloatEl(1), FloatEl(10), NullEl, StrEl}

RawArrays == SeqsUpTo(RawElems, MaxArity)

\* one raw array of any shape, as the only sample of one series
ShapePayloads ==
    {[prices |-> <<a>>, market_caps |-> <<>>, total_volumes |-> <<>>] :
        a \in RawArrays}
    \cup {[prices |-> <<>>, market_caps |-> <<>>, total_volumes |-> <<a>>] :
        a \in RawArrays}

Payloads == GoodPayloads \cup ShapePayloads

----------------------------------------------------------------------------
(* The state machine *)

Init ==
    /\ payload \in Payloads
    /\ data = None
    /\ loc = None
    /\ chart = <<>>
    /\ pc = "acquire"
    /\ err = "none"
    /\ log = <<>>

\* ureq::get(..).call()? when fetching, File::open(..)? otherwise
Acquire ==
    /\ pc = "acquire"
    /\ \E fetch \in BOOLEAN, ok \in BOOLEAN :
          IF ok THEN Advance("acquire") ELSE Abort("acquire", "AcquireError")
    /\ UNCHANGED <<payload, data, loc, chart>>

\* serde_json::from_reader(..)?
Parse ==
    /\ pc = "parse"
    /\ IF IsSome(DecodeData(payload))
       THEN data' = DecodeData(payload) /\ Advance("parse")
       ELSE data' = data /\ Abort("parse", "MalformedSampleError")
    /\ UNCHANGED <<payload, loc, chart>>

\* SVGBackend::new(..).into_drawing_area() and root.split_evenly((2, 1))
Canvas ==
    /\ pc = "canvas"
    /\ chart' = [p \in 1..2 |-> EmptyChart]
    /\ Advance("canvas")
    /\ UNCHANGED <<payload, data, loc>>

\* let x_min, x_max, y_min, y_max = ...unwrap()
Bounds(step, b) ==
    /\ pc = step
    /\ IF IsSome(b)
       THEN loc' = b /\ Advance(step)
       ELSE loc' = loc /\ Abort(step, "EmptySeriesError")
    /\ UNCHANGED <<payload, data, chart>>

\* a call into the drawing library that ends in ?: it draws, or main ends
Draw(step, p, drawn) ==
    /\ pc = step
    /\ \/ chart' = [chart EXCEPT ![p] = drawn] /\ Advance(step)
       \/ chart' = chart /\ Abort(step, "DrawingError")
    /\ UNCHANGED <<payload, data, loc>>

\* ChartBuilder::on(..)...build_cartesian_2d(x_min..x_max, y_min..y_max)?
Build(step, p) ==
    Draw(step, p,
         [chart[p] EXCEPT !.dom = Some([x |-> <<unwrap(loc).x_min, unwrap(loc).x_max>>,
                                        y |-> <<unwrap(loc).y_min, unwrap(loc).y_max>>])])

\* chart.configure_mesh()...draw()?
Mesh(step, p) == Draw(step, p, [chart[p] EXCEPT !.mesh = TRUE])

\* chart.draw_series(LineSeries::new(.., RED))?.label(..)
Line(step, p, points, label) ==
    Draw(step, p, [chart[p] EXCEPT !.line = Some(points),
                                   !.labels = Append(@, label)])

\* mutant: a point outside the domain of the chart is an error
Point_inside(step, p) ==
    /\ pc = step
    /\ IF /\ unwrap(chart[p].dom).x[1] <= point_data[1][1]
          /\ point_data[1][1] <= unwrap(chart[p].dom).x[2]
          /\ unwrap(chart[p].dom).y[1] <= point_data[1][2]
          /\ point_data[1][2] <= unwrap(chart[p].dom).y[2]
       THEN Draw(step, p, [chart[p] EXCEPT !.marker = Some(point_data),
                                           !.labels = Append(@, MergeLabel)])
       ELSE /\ Abort(step, "DrawingError")
            /\ UNCHANGED <<payload, data, loc, chart>>

\* chart.draw_series(PointSeries::new(point_data, 5, BLUE))?.label("merge date")
Point(step, p) ==
    Draw(step, p, [chart[p] EXCEPT !.marker = Some(point_data),
                                   !.labels = Append(@, MergeLabel)])

\* chart.configure_series_labels()...draw()?
Legend(step, p) ==
    Draw(step, p, [chart[p] EXCEPT !.legend = Some(chart[p].labels)])

P1Bounds == Bounds("bounds1", PriceBounds(unwrap(data)))

P1Build == Build("build1", 1)

P1Mesh == Mesh("mesh1", 1)

P1Line == Line("line1", 1, PriceLine(unwrap(data)), PriceLabel)

P1Point == Point("point1", 1)

P1Legend == Legend("legend1", 1)

P2Bounds == Bounds("bounds2", CapBounds(unwrap(data)))

P2Build == Build("build2", 2)

P2Mesh == Mesh("mesh2", 2)

P2Line == Line("line2", 2, CapLine(unwrap(data)), MarketCapLabel)

P2Point == Point("point2", 2)

P2Legend == Legend("legend2", 2)

\* root.present()?
Present ==
    /\ pc = "present"
    /\ \/ Advance("present")
       \/ Abort("present", "RenderFlushError")
    /\ UNCHANGED <<payload, data, loc, chart>>

Next ==
    \/ Acquire
    \/ Parse
    \/ Canvas
    \/ P1Bounds
    \/ P1Build
    \/ P1Mesh
    \/ P1Line
    \/ P1Point
    \/ P1Legend
    \/ P2Bounds
    \/ P2Build
    \/ P2Mesh
    \/ P2Line
    \/ P2Point
    \/ P2Legend
    \/ Present

Spec == Init /\ [][Next]_vars

----------------------------------------------------------------------------
(* Vocabulary of the properties *)

\* the series stored for a sub-area: prices above, market caps below
Stored(p) == IF p = 1 THEN unwrap(data).prices ELSE unwrap(data).market_caps

\* the positions of a series whose value is present
Valued(s) == {i \in 1..Len(s) : s[i].price # None}

\* the k-th least element of a set of positions
Kth(I, k) == CHOOSE i \in I : Cardinality({j \in I : j <= i}) = k

Least(S) == CHOOSE x \in S : \A y \in S : x <= y

Greatest(S) == CHOOSE x \in S : \A y \in S : x >= y

NonDecreasing(ts) == \A i, j \in 1..Len(ts) : i < j => ts[i] <= ts[j]

Started(step) == \E i \in 1..Len(log) : log[i] = step

FailedAt(step) == pc = "failed" /\ log # <<>> /\ log[Len(log)] = step

----------------------------------------------------------------------------
(* C1 *)

\* C1: the points given to the line of a panel are exactly the stored
\* samples whose value is present, in stored order: as many points as
\* valued samples, never more than stored samples, the k-th point being the
\* k-th valued sample with its timestamp and its value.
C1_ValuedViewIsSubsequence ==
    \A p \in DOMAIN chart :
        chart[p].line # None =>
            LET s  == Stored(p)
                ln == unwrap(chart[p].line)
            IN  /\ Len(ln) = Cardinality(Valued(s))
                /\ Len(ln) <= Len(s)
                /\ \A k \in 1..Len(ln) :
                      ln[k] = <<s[Kth(Valued(s), k)].ts,
                                unwrap(s[Kth(Valued(s), k)].price)>>
                /\ \A i \in Valued(s) :
                      \E k \in 1..Len(ln) : ln[k] = <<s[i].ts, unwrap(s[i].price)>>

\* a line was drawn from a series that mixes present and absent values
C1_Witness ==
    /\ DOMAIN chart # {}
    /\ chart[1].line # None
    /\ Len(unwrap(chart[1].line)) = 2
    /\ Len(unwrap(data).prices) = 3
    /\ unwrap(data).prices[2].price = None

----------------------------------------------------------------------------
(* C2 *)

\* C2: the X-domain of a panel is [least, greatest] timestamp of the
\* samples of its series whose value is present; a sample without a value
\* does not change it.
C2_XDomainOverValuedOnly ==
    \A p \in DOMAIN chart :
        chart[p].dom # None =>
            LET s  == Stored(p)
                ts == {s[i].ts : i \in Valued(s)}
            IN  unwrap(chart[p].dom).x = <<Least(ts), Greatest(ts)>>

----------------------------------------------------------------------------
(* C3 *)

InsertAt(s, i, x) == SubSeq(s, 1, i) \o <<x>> \o SubSeq(s, i + 1, Len(s))

\* the samples tried for insertion: absent, below, inside and above
Inserted ==
    {[ts |-> t, price |-> v] :
        t \in {0, 2, 4}, v \in {None, Some(5), Some(10), Some(20), Some(30), Some(2000)}}

\* C3: the Y-domain of a panel is [least, greatest] present value of its
\* series, and inserting one sample anywhere in the series moves the
\* bounds monotonically: a present value below the minimum becomes the
\* lower bound, one above the maximum becomes the upper bound, one inside
\* changes nothing, and an absent value changes nothing.
C3_YDomainMonotonic ==
    \A p \in DOMAIN chart :
        chart[p].dom # None =>
            LET s  == Stored(p)
                vs == {unwrap(s[i].price) : i \in Valued(s)}
                lo == unwrap(chart[p].dom).y[1]
                hi == unwrap(chart[p].dom).y[2]
            IN  /\ lo = Least(vs) /\ hi = Greatest(vs)
                /\ pc \in {"mesh1", "mesh2"} =>
                      \A x \in Inserted : \A i \in 0..Len(s) :
                        LET b == BoundsOf(InsertAt(s, i, x))
                            v == unwrap(x.price)
                        IN  /\ b # None
                            /\ x.price = None =>
                                  unwrap(b).y_min = lo /\ unwrap(b).y_max = hi
                            /\ x.price # None =>
                                  /\ unwrap(b).y_min = (IF v < lo THEN v ELSE lo)
                                  /\ unwrap(b).y_max = (IF v > hi THEN v ELSE hi)

\* bounds were computed for a series with an absent value and two distinct
\* present values, so that insertion below, inside and above all occur
C3_Witness ==
    /\ pc = "mesh1"
    /\ Len(unwrap(data).prices) = 3
    /\ Cardinality(Valued(unwrap(data).prices)) = 2
    /\ unwrap(chart[1].dom).y = <<10, 30>>

----------------------------------------------------------------------------
(* C4 *)

BoundsStep(p) == IF p = 1 THEN "bounds1" ELSE "bounds2"

BuildStep(p) == IF p = 1 THEN "build1" ELSE "build2"

\* C4: when the series of a panel has no sample with a present value (it
\* is empty, or all its values are absent), the bound computation of that
\* panel ends the run with EmptySeriesError: the exit status is not zero,
\* the panel gets no domain and nothing drawn, and nothing is presented.
C4_NoValuedSampleIsFatal ==
    \A p \in 1..2 :
        (Started(BoundsStep(p)) /\ Valued(Stored(p)) = {}) =>
            /\ FailedAt(BoundsStep(p))
            /\ err = "EmptySeriesError"
            /\ ExitStatus # 0
            /\ chart[p] = EmptyChart
            /\ ~Started(BuildStep(p))
            /\ ~Started("present")

\* the market-cap bounds were attempted on a non-empty series whose values
\* are all absent
C4_Witness ==
    /\ Started("bounds2")
    /\ unwrap(data).market_caps # <<>>
    /\ Valued(unwrap(data).market_caps) = {}
    /\ Valued(unwrap(data).prices) # {}

----------------------------------------------------------------------------
(* C5 *)

SeriesNames == {"prices", "market_caps", "total_volumes"}

RawOf(f) == payload[f]

\* the decoded samples agree with the raw ones: same timestamp, an absent
\* value exactly for null, the number otherwise
DecodedFaithfully ==
    \A f \in SeriesNames :
        /\ Len(unwrap(data)[f]) = Len(RawOf(f))
        /\ \A i \in 1..Len(RawOf(f)) :
              /\ unwrap(data)[f][i].ts = RawOf(f)[i][1].v
              /\ RawOf(f)[i][2].k = "null" <=> unwrap(data)[f][i].price = None
              /\ RawOf(f)[i][2].k # "null" =>
                    unwrap(data)[f][i].price = Some(RawOf(f)[i][2].v)

RawSamples == UNION {{RawOf(f)[i] : i \in 1..Len(RawOf(f))} : f \in SeriesNames}

\* the outcome of parsing, accepted telling whether every raw sample decodes
ParseOutcome(accepted) ==
    Started("parse") =>
        /\ data # None <=> accepted
        /\ data # None => DecodedFaithfully
        /\ data = None =>
              FailedAt("parse") /\ err = "MalformedSampleError" /\ ExitStatus # 0

\* C5 as stated: a raw sample decodes exactly when it has two elements and
\* the first is an integer timestamp; otherwise parsing fails with
\* MalformedSampleError and there is no dataset.
C5_DecodesIffTwoElementsIntFirst ==
    ParseOutcome(\A a \in RawSamples : Len(a) = 2 /\ a[1].k = "int")

\* C5, amended: a raw sample decodes exactly when it has two elements, the
\* first is an integer timestamp and the second is null or a number; null
\* decodes to an absent value; otherwise parsing fails with
\* MalformedSampleError and there is no dataset.
C5_DecodesIffTwoElementsIntFirstNumberOrNullSecond ==
    ParseOutcome(\A a \in RawSamples : /\ Len(a) = 2
                                        /\ a[1].k = "int"
                                        /\ a[2].k \in {"null", "int", "float"})

\* [t, null] was decoded into a sample with an absent value
C5_Witness ==
    /\ Started("parse")
    /\ payload.prices = << <<IntEl(-1), NullEl>> >>
    /\ data # None
    /\ unwrap(data).prices = <<[ts |-> -1, price |-> None]>>

----------------------------------------------------------------------------
(* C6 *)

\* a finished panel as a function of its series alone
ExpectedPanel(s, label) ==
    LET ts == {s[i].ts : i \in 1..Len(s)}
        vs == {unwrap(s[i].price) : i \in Valued(s)}
    IN  [dom    |-> Some([x |-> <<Least(ts), Greatest(ts)>>,
                          y |-> <<Least(vs), Greatest(vs)>>]),
         mesh   |-> TRUE,
         line   |-> Some([k \in 1..Cardinality(Valued(s)) |->
                            <<s[Kth(Valued(s), k)].ts,
                              unwrap(s[Kth(Valued(s), k)].price)>>]),
         marker |-> Some(<< <<1663224180, 1450>> >>),
         labels |-> <<label, "merge date">>,
         legend |-> Some(<<label, "merge date">>)]

\* C6: once panel 2 is started panel 1 is finished and is what the prices
\* alone determine, whatever market_caps holds; and when prices has a
\* valued sample and market_caps is empty, the run cannot end well, panel 2
\* gets nothing, and EmptySeriesError is raised at panel 2's bounds only.
C6_EmptyMarketCapsFailsPanel2Only ==
    /\ Started("bounds2") =>
          chart[1] = ExpectedPanel(unwrap(data).prices, "ETH price in USD")
    /\ (data # None /\ Valued(unwrap(data).prices) # {}
            /\ unwrap(data).market_caps = <<>>) =>
          /\ pc # "done"
          /\ ~Started("build2")
          /\ DOMAIN chart # {} => chart[2] = EmptyChart
          /\ err = "EmptySeriesError" <=> FailedAt("bounds2")
          /\ Started("bounds2") => FailedAt("bounds2")

\* panel 2 failed on an empty market_caps after panel 1 was drawn from
\* prices with a gap
C6_Witness ==
    /\ FailedAt("bounds2")
    /\ unwrap(data).market_caps = <<>>
    /\ Len(unwrap(data).prices) = 3
    /\ Cardinality(Valued(unwrap(data).prices)) = 2
    /\ chart[1].legend # None

----------------------------------------------------------------------------
(* C7 *)

Terminal == {"done", "failed"}

\* the statements run so far are an initial part of the fixed order
C7_State ==
    /\ Len(log) <= Len(Order)
    /\ \A i \in 1..Len(log) : log[i] = Order[i]
    /\ Started("canvas") => data # None
    /\ pc \notin Terminal => err = "none" /\ pc = Order[Len(log) + 1]
    /\ pc = "done" => err = "none" /\ log = Order
    /\ pc = "failed" => err # "none" /\ log # <<>>
    /\ Started("present") => Len(log) = Len(Order) /\ pc \in Terminal

\* C7: the statements of a run are executed in the fixed order acquire,
\* parse, panel 1, panel 2, present, each at most once: drawing starts only
\* with a parsed dataset, panel 2 only after panel 1's legend, present only
\* as the last statement after every other one succeeded; and after a
\* failure (or the end) nothing more is executed.
C7_FixedOrderNoRetry ==
    /\ []C7_State
    /\ [][pc \notin Terminal /\ log' = Append(log, pc)]_vars

\* a drawing statement of panel 2 failed after panel 1 was finished
C7_Witness ==
    /\ FailedAt("mesh2")
    /\ err = "DrawingError"
    /\ chart[1].legend # None

----------------------------------------------------------------------------
(* C8 *)

PointStep(p) == IF p = 1 THEN "point1" ELSE "point2"

LegendStep(p) == IF p = 1 THEN "legend1" ELSE "legend2"

PrimaryLabel(p) == IF p = 1 THEN "ETH price in USD" ELSE "ETH market cap in USD"

EventInside(dom) ==
    /\ dom.x[1] <= 1663224180 /\ 1663224180 <= dom.x[2]
    /\ dom.y[1] <= 1450 /\ 1450 <= dom.y[2]

\* C8: whatever the domain of a panel, the annotation statement can
\* complete; the marker it draws is the one point (2022-09-15T06:43:00Z,
\* 1450.0), not moved into the domain; the domain stays the one computed
\* from the series; and the legend lists the primary label and "merge
\* date", nothing else.
C8_AnnotationIndependentOfData ==
    \A p \in DOMAIN chart :
        /\ pc = PointStep(p) =>
              ENABLED ((P1Point \/ P2Point) /\ pc' = LegendStep(p))
        /\ chart[p].marker # None =>
              /\ chart[p].marker = Some(<< <<1663224180, 1450>> >>)
              /\ chart[p].dom =
                    ExpectedPanel(Stored(p), PrimaryLabel(p)).dom
        /\ chart[p].legend # None =>
              chart[p].legend = Some(<<PrimaryLabel(p), "merge date">>)

\* the legend of a panel was drawn although the event lies outside the
\* panel's domain
C8_Witness ==
    /\ DOMAIN chart # {}
    /\ chart[1].legend # None
    /\ chart[1].marker # None
    /\ ~EventInside(unwrap(chart[1].dom))

----------------------------------------------------------------------------
(* C9 *)

ExamplePrices ==
    <<[ts |-> 1, price |-> Some(10)], [ts |-> 2, price |-> None],
      [ts |-> 3, price |-> Some(30)]>>

Stamps(ln) == [k \in 1..Len(ln) |-> ln[k][1]]

\* the line has one point per valued sample, each point is a valued
\* sample, and the example series gives the example line and domain
C9_Points ==
    \A p \in DOMAIN chart :
        chart[p].line # None =>
            LET s  == Stored(p)
                ln == unwrap(chart[p].line)
            IN  /\ Len(ln) = Cardinality(Valued(s))
                /\ \A k \in 1..Len(ln) :
                      \E i \in Valued(s) : ln[k] = <<s[i].ts, unwrap(s[i].price)>>
                /\ (p = 1 /\ s = ExamplePrices) =>
                      /\ ln = << <<1, 10>>, <<3, 30>> >>
                      /\ chart[p].dom = Some([x |-> <<1, 3>>, y |-> <<10, 30>>])

\* C9 as stated: the line has one point per valued sample and none for an
\* absent value, the example series gives the two points (1000,10.0),
\* (3000,30.0) with X-domain [1000,3000] and Y-domain [10.0,30.0], and the
\* points are ascending in timestamp for every input series.
C9_LineAscendingForEveryInput ==
    /\ C9_Points
    /\ \A p \in DOMAIN chart :
          chart[p].line # None => NonDecreasing(Stamps(unwrap(chart[p].line)))

\* C9, amended: as above, except that the points are ascending in
\* timestamp when the series is stored in ascending timestamp order (they
\* are in stored order, the series is not sorted).
C9_LineAscendingForAscendingInput ==
    /\ C9_Points
    /\ \A p \in DOMAIN chart :
          (/\ chart[p].line # None
           /\ NonDecreasing([i \in 1..Len(Stored(p)) |-> Stored(p)[i].ts]))
              => NonDecreasing(Stamps(unwrap(chart[p].line)))

\* the line of the example series was drawn
C9_Witness ==
    /\ DOMAIN chart # {}
    /\ unwrap(data).prices = ExamplePrices
    /\ chart[1].line = Some(<< <<1, 10>>, <<3, 30>> >>)

----------------------------------------------------------------------------
(* C10 *)

\* other contents for the series a panel does not read
OtherSeries ==
    {<<>>,
     <<[ts |-> 4, price |-> Some(2000)], [ts |-> 0, price |-> None]>>}

DomOf(b) == Some([x |-> <<unwrap(b).x_min, unwrap(b).x_max>>,
                  y |-> <<unwrap(b).y_min, unwrap(b).y_max>>])

\* what the panels and the outcome are in this run, they also are for the
\* datasets that differ in the series the panel does not read
C10_State ==
    (data # None /\ DOMAIN chart # {}) =>
        /\ \A m \in OtherSeries, v \in OtherSeries :
              LET d == [unwrap(data) EXCEPT !.market_caps = m, !.total_volumes = v]
              IN  /\ Started("bounds1") =>
                        (FailedAt("bounds1") <=> PriceBounds(d) = None)
                  /\ chart[1].dom # None => chart[1].dom = DomOf(PriceBounds(d))
                  /\ chart[1].line # None => chart[1].line = Some(PriceLine(d))
        /\ \A q \in OtherSeries, v \in OtherSeries :
              LET d == [unwrap(data) EXCEPT !.prices = q, !.total_volumes = v]
              IN  /\ Started("bounds2") =>
                        (FailedAt("bounds2") <=> CapBounds(d) = None)
                  /\ chart[2].dom # None => chart[2].dom = DomOf(CapBounds(d))
                  /\ chart[2].line # None => chart[2].line = Some(CapLine(d))

\* C10: the domain and the line of panel 1 are the same for every dataset
\* with the same prices, those of panel 2 for every dataset with the same
\* market_caps; whether a bound computation fails does not depend on the
\* other series either, total_volumes included; and the dataset never
\* changes once parsed.
C10_PanelsReadOnlyTheirSeries ==
    /\ []C10_State
    /\ [][data # None => data' = data]_vars

\* both panels and the flush are done for a dataset with total volumes
C10_Witness ==
    /\ pc = "done"
    /\ unwrap(data).total_volumes # <<>>
====
